---- MODULE Spec2Model ----
(***************************************************************************)
(* pipewire-autoconnect (src/src/main.rs): the rule parser, the store of   *)
(* live nodes and ports, and the link resolver.                            *)
(*                                                                         *)
(* A String is a sequence of one-character strings.  An Option is a        *)
(* sequence of length at most one: <<>> is None, <<v>> is Some(v).         *)
(* An Rc<T> of an immutable T is the value of T.                           *)
(***************************************************************************)
EXTENDS Integers, Sequences, FiniteSets, TLC

VARIABLES
    pc,         \* "parse": inside parse_file's loop; "run": the main loop runs
    lines,      \* parse_file: the lines of the reader not read yet
    read,       \* parse_file: the lines of the reader read so far
    node_map,   \* parse_file: HashMap<String, Rc<NodeDef>> (line 258)
    port_map,   \* parse_file: HashMap<String, Rc<PortDef>> (line 259)
    link_def,   \* parse_file's link_def, then AppState.link_def
    node_def,   \* AppState.node_def
    port_def,   \* AppState.port_def
    nodes,      \* AppState.nodes
    ports,      \* AppState.ports
    invalid,    \* the lines printed as "invalid line" so far
    last,       \* the registry global handled by the last step and what it did:
                \* its kind, the name and owner id the admission was called
                \* with, what the admission returned, the id of the object
                \* if it was admitted (else 0), the ids of the entries it
                \* replaced, the port name create_links was called with
    emitted,    \* the create_object calls of the last step, in order
    sent,       \* history: for each pair of port names (output, input), the
                \* port ids of the latest create_object call made for it;
                \* kept in SpecSent only
    scenario    \* history: the globals handled since the main loop began
                \* and the requests of each, kept while they are the run
                \* "node A, node B, then port p on A's id and port q on B's
                \* id, each once"; switched off by any other global

vars == <<pc, lines, read, node_map, port_map, link_def, node_def, port_def,
          nodes, ports, invalid, last, emitted, sent, scenario>>

(***************************************************************************)
(* Bounds and input alphabets.                                             *)
(***************************************************************************)
\* object ids the registry hands out are 1..MaxId
MaxId == 2

Ids == 1..MaxId

None == <<>>

Some(v) == <<v>>

IsSome(o) == Len(o) = 1

IsNone(o) == Len(o) = 0

Unwrap(o) == o[1]

Range(s) == {s[i] : i \in 1..Len(s)}

(***************************************************************************)
(* The rule file pattern RE (lines 254-256): "[" node_out "](" port_out     *)
(* ")" spaces "->" spaces "[" node_in "](" port_in ")", where each of the  *)
(* four named groups is "any characters, as many as possible".             *)
(* The regex is not anchored; the match is the leftmost one and every .*   *)
(* is greedy: the first group takes the longest run for which the rest     *)
(* still matches, then the second one, and so on.                          *)
(***************************************************************************)
IsSpace(c) == c \in {" ", "\t"}

\* \s* from position i: the first position at or after i that holds no space
RECURSIVE SkipSpaces(_, _)
SkipSpaces(line, i) ==
    IF i <= Len(line) /\ IsSpace(line[i]) THEN SkipSpaces(line, i + 1) ELSE i

\* positions d of "](" from which  \]\((.*)\)  can match: a ")" follows
CloseOpen(line, from) ==
    {d \in from..(Len(line) - 1) : line[d] = "]" /\ line[d + 1] = "("}

Parens(line, from) == {e \in from..Len(line) : line[e] = ")"}

Max(S) == CHOOSE x \in S : \A y \in S : y <= x

Min(S) == CHOOSE x \in S : \A y \in S : x <= y

\* \s*->\s*\[ after the ")" at b: the position of the "[" it ends on, if any
Arrow(line, b) ==
    LET j == SkipSpaces(line, b + 1)
        c == SkipSpaces(line, j + 2)
    IN  IF /\ j + 1 <= Len(line)
           /\ line[j] = "-"
           /\ line[j + 1] = ">"
           /\ c <= Len(line)
           /\ line[c] = "["
        THEN Some(c) ELSE None

\* the positions d of the "](" of the input side for which the rest matches
InSide(line, c) == {d \in CloseOpen(line, c + 1) : Parens(line, d + 2) # {}}

\* the ")" positions b closing port_out for which the rest of the regex matches
OutParens(line, a) ==
    {b \in Parens(line, a + 2) :
        /\ IsSome(Arrow(line, b))
        /\ InSide(line, Unwrap(Arrow(line, b))) # {}}

\* the "](" positions a closing node_out for which the rest matches
OutSide(line, s) == {a \in CloseOpen(line, s + 1) : OutParens(line, a) # {}}

\* the "[" positions a match can start at
Starts(line) ==
    {s \in 1..Len(line) : line[s] = "[" /\ OutSide(line, s) # {}}

is_match(line) == Starts(line) # {}

Sub(line, i, j) == IF i > j THEN <<>> ELSE SubSeq(line, i, j)

\* RE.captures(&line).unwrap(): the four named groups
captures(line) ==
    LET s == Min(Starts(line))
        a == Max(OutSide(line, s))
        b == Max(OutParens(line, a))
        c == Unwrap(Arrow(line, b))
        d == Max(InSide(line, c))
        e == Max(Parens(line, d + 2))
    IN  [node_out |-> Sub(line, s + 1, a - 1),
         port_out |-> Sub(line, a + 2, b - 1),
         node_in  |-> Sub(line, c + 1, d - 1),
         port_in  |-> Sub(line, d + 2, e - 1)]

\* line.starts_with('#') (line 308)
starts_with_hash(line) == Len(line) >= 1 /\ line[1] = "#"

(***************************************************************************)
(* parse_file (lines 250-317).                                             *)
(***************************************************************************)
Insert(m, k, v) == [x \in (DOMAIN m) \cup {k} |-> IF x = k THEN v ELSE m[x]]

EmptyMap == [x \in {} |-> x]

Values(m) == {m[k] : k \in DOMAIN m}

\* match node_def.get_mut(name) { Some(node) => node, None => insert a new one }
node_entry(m, name) ==
    IF name \in DOMAIN m
    THEN [def |-> m[name], map |-> m]
    ELSE [def |-> [name |-> name], map |-> Insert(m, name, [name |-> name])]

\* port_entry on a map keyed by the node name and the port name
port_entry_per_node(m, name, node) ==
    LET key == node.name \o <<"/">> \o name
    IN  IF key \in DOMAIN m
        THEN [def |-> m[key], map |-> m]
        ELSE [def |-> [node |-> node, name |-> name],
              map |-> Insert(m, key, [node |-> node, name |-> name])]

\* match port_def.get_mut(name) { Some(port) => port, None => insert a new one }
port_entry(m, name, node) ==
    IF name \in DOMAIN m
    THEN [def |-> m[name], map |-> m]
    ELSE [def |-> [node |-> node, name |-> name],
          map |-> Insert(m, name, [node |-> node, name |-> name])]

\* parse_line that gives up on the file at a line that is no rule and no
\* comment: every line after it is treated the same way
parse_line_stops_at_invalid(st, line) ==
    IF is_match(line) /\ st.invalid = <<>>
    THEN LET caps     == captures(line)
             node_out == node_entry(st.node_map, caps.node_out)
             node_in  == node_entry(node_out.map, caps.node_in)
             port_out == port_entry(st.port_map, caps.port_out, node_out.def)
             port_in  == port_entry(port_out.map, caps.port_in, node_in.def)
             link     == [port_out |-> port_out.def, port_in |-> port_in.def]
         IN  [node_map |-> node_in.map,
              port_map |-> port_in.map,
              link_def |-> Append(st.link_def, link),
              invalid  |-> st.invalid]
    ELSE IF ~starts_with_hash(line) \/ st.invalid # <<>>
    THEN [st EXCEPT !.invalid = Append(st.invalid, line)]
    ELSE st

\* one turn of the loop over reader.lines() on a line that was read
parse_line(st, line) ==
    IF is_match(line)
    THEN LET caps     == captures(line)
             node_out == node_entry(st.node_map, caps.node_out)
             node_in  == node_entry(node_out.map, caps.node_in)
             port_out == port_entry(st.port_map, caps.port_out, node_out.def)
             port_in  == port_entry(port_out.map, caps.port_in, node_in.def)
             link     == [port_out |-> port_out.def, port_in |-> port_in.def]
         IN  [node_map |-> node_in.map,
              port_map |-> port_in.map,
              link_def |-> Append(st.link_def, link),
              invalid  |-> st.invalid]
    ELSE IF ~starts_with_hash(line)
    THEN [st EXCEPT !.invalid = Append(st.invalid, line)]
    ELSE st

(***************************************************************************)
(* The store of live objects (lines 54-146).                               *)
(***************************************************************************)
\* search(v, f), given n = v.iter().filter(f) collected (line 59)
search(n) == IF Len(n) # 1 THEN None ELSE Some(n[1])

\* try_add_node without the check against node_def
try_add_node_any(ns, ndefs, def) ==
    [ret   |-> TRUE,
     nodes |-> Append(SelectSeq(ns, LAMBDA a : ~(a.name = def.name)), def)]

\* try_add_node that drops the entry of the same id, not of the same name
try_add_node_by_id(ns, ndefs, def) ==
    IF ~(\E a \in ndefs : a.name = def.name)
    THEN [ret |-> FALSE, nodes |-> ns]
    ELSE [ret   |-> TRUE,
          nodes |-> Append(SelectSeq(ns, LAMBDA a : ~(a.id = def.id)), def)]

\* try_add_node that pushes without dropping the entry of the same name
try_add_node_push(ns, ndefs, def) ==
    IF ~(\E a \in ndefs : a.name = def.name)
    THEN [ret |-> FALSE, nodes |-> ns]
    ELSE [ret |-> TRUE, nodes |-> Append(ns, def)]

try_add_node(ns, ndefs, def) ==
    IF ~(\E a \in ndefs : a.name = def.name)
    THEN [ret |-> FALSE, nodes |-> ns]
    ELSE [ret   |-> TRUE,
          nodes |-> Append(SelectSeq(ns, LAMBDA a : ~(a.name = def.name)), def)]

get_node(ns, id) == search(SelectSeq(ns, LAMBDA a : a.id = id))

get_port_by_name(ps, name) == search(SelectSeq(ps, LAMBDA a : a.name = name))

\* try_add_port that takes the first live node of the owner id, also when
\* there are several
try_add_port_first_owner(ns, ps, pdefs, id, name, node_id) ==
    LET owners == SelectSeq(ns, LAMBDA a : a.id = node_id)
    IN  IF owners = <<>>
        THEN [ret |-> FALSE, ports |-> ps]
        ELSE LET n == Head(owners)
             IN  IF Cardinality({a \in pdefs :
                                    a.name = name /\ a.node.name = n.name}) # 1
                 THEN [ret |-> FALSE, ports |-> ps]
                 ELSE [ret   |-> TRUE,
                       ports |-> Append(
                           SelectSeq(ps, LAMBDA a :
                               ~(a.name = name /\ a.node.name = n.name)),
                           [id |-> id, name |-> name, node |-> n])]

\* try_add_port that pushes without dropping the entry of the same pair
try_add_port_push(ns, ps, pdefs, id, name, node_id) ==
    LET node == get_node(ns, node_id)
    IN  IF IsNone(node)
        THEN [ret |-> FALSE, ports |-> ps]
        ELSE LET n == Unwrap(node)
             IN  IF Cardinality({a \in pdefs :
                        a.name = name /\ a.node.name = n.name}) # 1
                 THEN [ret |-> FALSE, ports |-> ps]
                 ELSE [ret   |-> TRUE,
                       ports |-> Append(ps, [id |-> id, name |-> name, node |-> n])]

\* try_add_port without the check against port_def
try_add_port_undeclared(ns, ps, pdefs, id, name, node_id) ==
    LET node == get_node(ns, node_id)
    IN  IF IsNone(node)
        THEN [ret |-> FALSE, ports |-> ps]
        ELSE LET n == Unwrap(node)
             IN  [ret   |-> TRUE,
                  ports |-> Append(
                      SelectSeq(ps, LAMBDA a :
                          ~(a.name = name /\ a.node.name = n.name)),
                      [id |-> id, name |-> name, node |-> n])]

\* try_add_port that matches the definition by port name only
try_add_port_any_node(ns, ps, pdefs, id, name, node_id) ==
    LET node == get_node(ns, node_id)
    IN  IF IsNone(node)
        THEN [ret |-> FALSE, ports |-> ps]
        ELSE LET n == Unwrap(node)
             IN  IF Cardinality({a \in pdefs : a.name = name}) # 1
                 THEN [ret |-> FALSE, ports |-> ps]
                 ELSE [ret   |-> TRUE,
                       ports |-> Append(
                           SelectSeq(ps, LAMBDA a :
                               ~(a.name = name /\ a.node.name = n.name)),
                           [id |-> id, name |-> name, node |-> n])]

try_add_port(ns, ps, pdefs, id, name, node_id) ==
    LET node == get_node(ns, node_id)
    IN  IF IsNone(node)
        THEN [ret |-> FALSE, ports |-> ps]
        ELSE LET n == Unwrap(node)
             IN  IF Cardinality({a \in pdefs :
                        a.name = name /\ a.node.name = n.name}) # 1
                 THEN [ret |-> FALSE, ports |-> ps]
                 ELSE [ret   |-> TRUE,
                       ports |-> Append(
                           SelectSeq(ps, LAMBDA a :
                               ~(a.name = name /\ a.node.name = n.name)),
                           [id |-> id, name |-> name, node |-> n])]

(***************************************************************************)
(* u32 <-> String.                                                         *)
(***************************************************************************)
DigitChar == <<"0", "1", "2", "3", "4", "5", "6", "7", "8", "9">>

RECURSIVE to_string(_)
to_string(n) ==
    IF n < 10 THEN <<DigitChar[n + 1]>>
    ELSE Append(to_string(n \div 10), DigitChar[(n % 10) + 1])

DigitVal(c) == CHOOSE d \in 0..9 : DigitChar[d + 1] = c

IsDigit(c) == \E d \in 0..9 : DigitChar[d + 1] = c

RECURSIVE DecimalValue(_)
DecimalValue(ds) ==
    IF ds = <<>> THEN 0
    ELSE 10 * DecimalValue(SubSeq(ds, 1, Len(ds) - 1)) + DigitVal(ds[Len(ds)])

RECURSIVE StripZeros(_)
StripZeros(ds) ==
    IF Len(ds) > 1 /\ ds[1] = "0" THEN StripZeros(Tail(ds)) ELSE ds

\* u32::MAX = 4294967295, digit by digit
U32MaxDigits == <<4, 2, 9, 4, 9, 6, 7, 2, 9, 5>>

\* ds, ten digits long, is at most u32::MAX
RECURSIVE AtMostMax(_, _)
AtMostMax(ds, i) ==
    \/ i > Len(ds)
    \/ DigitVal(ds[i]) < U32MaxDigits[i]
    \/ DigitVal(ds[i]) = U32MaxDigits[i] /\ AtMostMax(ds, i + 1)

\* str::parse::<u32>(): an optional "+", then at least one digit, the value
\* at most u32::MAX
parse_u32(str) ==
    LET ds == IF str # <<>> /\ str[1] = "+" THEN Tail(str) ELSE str
        sig == StripZeros(ds)
    IN  IF /\ ds # <<>>
           /\ \A i \in 1..Len(ds) : IsDigit(ds[i])
           /\ \/ Len(sig) < 10
              \/ Len(sig) = 10 /\ AtMostMax(sig, 1)
        THEN Some(DecimalValue(sig)) ELSE None

(***************************************************************************)
(* The link resolver (lines 148-183).                                      *)
(***************************************************************************)
\* one TempLink (lines 158-161)
temp_link(ps, a) ==
    [port_in  |-> get_port_by_name(ps, a.port_in.name),
     port_out |-> get_port_by_name(ps, a.port_out.name)]

\* resolved_links that looks at the output side of a definition only
resolved_links_out_only(ps, ldefs, port_name) ==
    LET referencing == SelectSeq(ldefs, LAMBDA link :
                           link.port_out.name = port_name)
        temp == [i \in 1..Len(referencing) |-> temp_link(ps, referencing[i])]
    IN  SelectSeq(temp, LAMBDA a : IsSome(a.port_in) /\ IsSome(a.port_out))

\* resolved_links that stops at the first definition naming the port
resolved_links_first_only(ps, ldefs, port_name) ==
    LET referencing == SelectSeq(ldefs, LAMBDA link :
                           link.port_in.name = port_name
                               \/ link.port_out.name = port_name)
        temp == [i \in 1..Len(referencing) |-> temp_link(ps, referencing[i])]
        found == SelectSeq(temp, LAMBDA a : IsSome(a.port_in) /\ IsSome(a.port_out))
    IN  IF found = <<>> THEN <<>> ELSE <<Head(found)>>

\* the TempLinks that get through both filters, in link_def order
resolved_links(ps, ldefs, port_name) ==
    LET referencing == SelectSeq(ldefs, LAMBDA link :
                           link.port_in.name = port_name
                               \/ link.port_out.name = port_name)
        temp == [i \in 1..Len(referencing) |-> temp_link(ps, referencing[i])]
    IN  SelectSeq(temp, LAMBDA a : IsSome(a.port_in) /\ IsSome(a.port_out))

\* the properties of one create_object call
link_properties(a) ==
    LET port_in  == Unwrap(a.port_in)
        port_out == Unwrap(a.port_out)
    IN  [output_port |-> to_string(port_out.id),
         input_port  |-> to_string(port_in.id),
         output_node |-> to_string(port_out.node.id),
         input_node  |-> to_string(port_in.node.id),
         linger      |-> <<"1">>]

\* create_links that gives up at the first create_object call that fails
create_links_stop_at_failure(ps, ldefs, port_name, fails) ==
    LET todo == resolved_links(ps, ldefs, port_name)
        upto == IF \E i \in 1..Len(todo) : i \in fails
                THEN Min({i \in 1..Len(todo) : i \in fails})
                ELSE Len(todo)
    IN  [i \in 1..upto |->
            [props |-> link_properties(todo[i]), is_err |-> i \in fails]]

\* the create_object calls of one pass; the server fails the calls in `fails`
create_links(ps, ldefs, port_name, fails) ==
    LET todo == resolved_links(ps, ldefs, port_name)
    IN  [i \in 1..Len(todo) |->
            [props |-> link_properties(todo[i]), is_err |-> i \in fails]]

(***************************************************************************)
(* Inputs: the rule files read at startup and the registry's events.       *)
(***************************************************************************)
NodeA == <<"A">>

NodeB == <<"B">>

PortP == <<"p">>

PortQ == <<"q">>

PortR == <<"r">>

\* a rule line "[no](po) -> [ni](pi)" with sp around the arrow
LinkLine(no, po, sp, ni, pi) ==
    <<"[">> \o no \o <<"]", "(">> \o po \o <<")">> \o sp \o <<"-", ">">>
        \o sp \o <<"[">> \o ni \o <<"]", "(">> \o pi \o <<")">>

LineComment == <<"#", " ", "x">>

LineBad == <<"x", " ", "y">>

\* the rule files of Spec: one link; that link written twice, the second time
\* under the other nodes and after a line that is no rule; a link with one
\* port name on both sides, then a second link out of that port; no rule
RuleFiles ==
    { <<LinkLine(NodeA, PortP, <<" ">>, NodeB, PortQ)>>,
      <<LinkLine(NodeA, PortP, <<" ">>, NodeB, PortQ),
        LineBad,
        LinkLine(NodeB, PortP, <<"\t">>, NodeA, PortQ)>>,
      <<LinkLine(NodeA, PortP, <<" ">>, NodeB, PortP),
        LinkLine(NodeA, PortP, <<>>, NodeB, PortQ)>>,
      <<LineBad, LineComment>> }

\* the rule file of SpecShared: two links out of one port, all on one node
SharedFiles ==
    { <<LineComment,
        LinkLine(NodeA, PortP, <<" ">>, NodeA, PortQ),
        LinkLine(NodeA, PortP, <<>>, NodeA, PortR)>> }

\* the rule files of SpecSent: one link; a link written twice, the second
\* time under the other nodes
SentFiles ==
    { <<LinkLine(NodeA, PortP, <<" ">>, NodeB, PortQ)>>,
      <<LinkLine(NodeA, PortP, <<" ">>, NodeB, PortQ),
        LinkLine(NodeB, PortP, <<"\t">>, NodeA, PortQ)>> }

NodeC == <<"C">>

NodeD == <<"D">>

PortX == <<"x">>

PortY == <<"y">>

\* a rule file of SpecParse has at most MaxLines lines
MaxLines == 3

\* lines of a rule file: three rules (the second gives port x of the first
\* to the other node, the third has one port name on both sides), a rule
\* after a "#", a comment, a comment after a space, a line that is nothing
ParseLines ==
    { LinkLine(NodeC, PortX, <<" ">>, NodeD, PortY),
      LinkLine(NodeD, PortX, <<>>, NodeC, PortY),
      LinkLine(NodeC, PortX, <<" ">>, NodeD, PortX),
      <<"#", " ">> \o LinkLine(NodeC, PortX, <<" ">>, NodeD, PortY),
      LineComment,
      <<" ">> \o LineComment,
      LineBad }

\* the rule files of SpecParse: every file of at most MaxLines of these
\* lines; their node and port names are none the server reports
ParseFiles == UNION {[1..n -> ParseLines] : n \in 0..MaxLines}

\* node.name values the server reports: the rule files' nodes and a stranger
NodeNames == {NodeA, NodeB, <<"Z">>}

\* port.name values the server reports
PortNames == {PortP, PortQ, PortR}

AudioSink == <<"A", "u", "d", "i", "o", "/", "S", "i", "n", "k">>

VideoSource == <<"V", "i", "d", "e", "o">>

\* a global of ObjectType::Node: its id and its props (media.class, node.name)
NodeProps(class, name) == Some([media_class |-> class, node_name |-> name])

\* audio nodes of every name and id, and the globals deal_with_node skips:
\* no props, no media.class, no node.name, a class that is not audio
NodeEvents ==
    [id : Ids, props : {NodeProps(Some(AudioSink), Some(n)) : n \in NodeNames}]
        \cup [id : {1},
              props : {None,
                       NodeProps(None, Some(NodeA)),
                       NodeProps(Some(AudioSink), None),
                       NodeProps(Some(VideoSource), Some(NodeA))}]

\* a global of ObjectType::Port: its id and its props (port.name, node.id);
\* node_id is the text of the "node.id" property
PortProps(name, node_id) == Some([port_name |-> name, node_id |-> node_id])

\* ports of every name, id and owner id, and the globals deal_with_port skips:
\* no props, no port.name, no node.id, a node.id that is no number
PortEvents ==
    [id : Ids,
     props : {PortProps(Some(n), Some(to_string(i))) : n \in PortNames, i \in Ids}]
        \cup [id : {1},
              props : {None,
                       PortProps(None, Some(to_string(1))),
                       PortProps(Some(PortP), None),
                       PortProps(Some(PortP), Some(<<"x">>))}]

starts_with(str, prefix) ==
    Len(str) >= Len(prefix) /\ SubSeq(str, 1, Len(prefix)) = prefix

(***************************************************************************)
(* The state machine.                                                      *)
(***************************************************************************)
\* the ids of the entries of `old` that an admission did not keep in `new`
Dropped(old, new) ==
    LET gone == SelectSeq(old, LAMBDA a : \A k \in 1..Len(new) : new[k] # a)
    IN  [k \in 1..Len(gone) |-> gone[k].id]

\* the names already handled on the trail
TrailNames(trail) == {Unwrap(trail[k].ev.name) : k \in 1..Len(trail)}

\* the ids of the live nodes of this name
NodeIds(ns, name) == {ns[k].id : k \in {j \in 1..Len(ns) : ns[j].name = name}}

\* global ev carries the run on: one of the two nodes admitted, not seen yet,
\* or, after both, one of the two ports on the id of its node, not seen yet
Continues(trail, ev, ns) ==
    /\ IsSome(ev.ret)
    /\ Unwrap(ev.name) \notin TrailNames(trail)
    /\ IF Len(trail) < 2
       THEN ev.kind = "node" /\ Unwrap(ev.ret) /\ Unwrap(ev.name) \in {NodeA, NodeB}
       ELSE /\ Len(trail) < 4
            /\ ev.kind = "port"
            /\ \/ ev.name = Some(PortP) /\ Unwrap(ev.node_id) \in NodeIds(ns, NodeA)
               \/ ev.name = Some(PortQ) /\ Unwrap(ev.node_id) \in NodeIds(ns, NodeB)

Observe(sc, ev, reqs, ns) ==
    IF sc.on /\ Continues(sc.trail, ev, ns)
    THEN [on |-> TRUE, trail |-> Append(sc.trail, [ev |-> ev, reqs |-> reqs])]
    ELSE [on |-> FALSE, trail |-> <<>>]

NoEvent ==
    [kind |-> "none", id |-> 0, name |-> None, node_id |-> None,
     ret |-> None, replaced |-> <<>>, resolver |-> None]

\* the requests reqs from the k-th on, made for the TempLinks links one for
\* one, put into the history: each under the port names of its TempLink
\* (lines 170-181)
RECURSIVE Record(_, _, _, _)
Record(h, reqs, links, k) ==
    IF k > Len(reqs) \/ k > Len(links)
    THEN h
    ELSE Record(Insert(h, <<Unwrap(links[k].port_out).name,
                            Unwrap(links[k].port_in).name>>,
                       <<reqs[k].props.output_port, reqs[k].props.input_port>>),
                reqs, links, k + 1)

\* main has found the file and parse_file has opened it (lines 250-260);
\* keep says whether the history of requests is kept
InitKeeping(files, keep) ==
    /\ pc = "parse"
    /\ lines \in files
    /\ read = <<>>
    /\ node_map = EmptyMap
    /\ port_map = EmptyMap
    /\ link_def = <<>>
    /\ node_def = {}
    /\ port_def = {}
    /\ nodes = <<>>
    /\ ports = <<>>
    /\ invalid = <<>>
    /\ last = NoEvent
    /\ emitted = <<>>
    /\ sent = [on |-> keep, latest |-> EmptyMap]
    /\ scenario = [on |-> TRUE, trail |-> <<>>]

InitWith(files) == InitKeeping(files, FALSE)

Init == InitWith(RuleFiles)

InitShared == InitWith(SharedFiles)

InitParse == InitWith(ParseFiles)

InitSent == InitKeeping(SentFiles, TRUE)

\* lines 262-311: the loop reads one line and handles it
ParseLine ==
    /\ pc = "parse"
    /\ lines # <<>>
    /\ LET st == parse_line([node_map |-> node_map, port_map |-> port_map,
                             link_def |-> link_def, invalid |-> invalid],
                            Head(lines))
       IN  /\ node_map' = st.node_map
           /\ port_map' = st.port_map
           /\ link_def' = st.link_def
           /\ invalid' = st.invalid
    /\ lines' = Tail(lines)
    /\ read' = Append(read, Head(lines))
    /\ UNCHANGED <<pc, node_def, port_def, nodes, ports, last, emitted,
                   sent, scenario>>

\* line 263: reading the next line fails, parse_file returns the error
ReadError ==
    /\ pc = "parse"
    /\ lines # <<>>
    /\ pc' = "failed"
    /\ UNCHANGED <<lines, read, node_map, port_map, link_def, node_def, port_def,
                   nodes, ports, invalid, last, emitted, sent, scenario>>

\* lines 313-316 and 360-378: the maps' values become the AppState and the
\* maps, locals of parse_file, are gone
\* (node_def and port_def are only read through any() and filter().count(),
\* so the order values() gives them in is not kept)
ParseDone ==
    /\ pc = "parse"
    /\ lines = <<>>
    /\ node_def' = Values(node_map)
    /\ port_def' = Values(port_map)
    /\ node_map' = EmptyMap
    /\ port_map' = EmptyMap
    /\ pc' = "run"
    /\ UNCHANGED <<lines, read, link_def, nodes, ports, invalid, last, emitted,
                   sent, scenario>>

\* lines 186-218
deal_with_node(global_object) ==
    LET props == global_object.props
        wanted ==
            /\ IsSome(props)
            /\ IsSome(Unwrap(props).media_class)
            /\ IsSome(Unwrap(props).node_name)
            /\ starts_with(Unwrap(Unwrap(props).media_class),
                           <<"A", "u", "d", "i", "o">>)
    IN  IF wanted
        THEN \E name \in {Unwrap(Unwrap(props).node_name)} :
             \E r \in {try_add_node(nodes, node_def,
                                    [id |-> global_object.id, name |-> name])} :
                 /\ nodes' = r.nodes
                 /\ last' = [kind |-> "node",
                             id |-> IF r.ret THEN global_object.id ELSE 0,
                             name |-> Some(name), node_id |-> None,
                             ret |-> Some(r.ret),
                             replaced |-> IF r.ret THEN Dropped(nodes, r.nodes) ELSE <<>>,
                             resolver |-> None]
        ELSE /\ nodes' = nodes
             /\ last' = [kind |-> "node", id |-> 0,
                         name |-> None, node_id |-> None,
                         ret |-> None, replaced |-> <<>>, resolver |-> None]

DealWithNode ==
    /\ pc = "run"
    /\ \E global \in NodeEvents : deal_with_node(global)
    /\ emitted' = <<>>
    /\ scenario' = Observe(scenario, last', emitted', nodes')
    /\ UNCHANGED <<pc, lines, read, node_map, port_map, link_def, node_def, port_def,
                   ports, invalid, sent>>

\* the text of the "node.id" property as a u32, if the port has props, a
\* port.name and a node.id that parses (lines 225-227)
port_owner(port) ==
    IF /\ IsSome(port.props)
       /\ IsSome(Unwrap(port.props).port_name)
       /\ IsSome(Unwrap(port.props).node_id)
    THEN parse_u32(Unwrap(Unwrap(port.props).node_id))
    ELSE None

\* deal_with_port that runs the resolver whatever try_add_port returned
deal_with_port_always_resolves(port) ==
    IF IsSome(port_owner(port))
    THEN \E name \in {Unwrap(Unwrap(port.props).port_name)} :
         \E node_id \in {Unwrap(port_owner(port))} :
         \E r \in {try_add_port(nodes, ports, port_def, port.id, name, node_id)} :
             /\ ports' = r.ports
             /\ pc' = pc
             /\ \E fails \in SUBSET (1..Len(resolved_links(
                                          r.ports, link_def, name))) :
                    emitted' = create_links(r.ports, link_def, name, fails)
             /\ last' = [kind |-> "port",
                         id |-> IF r.ret THEN port.id ELSE 0,
                         name |-> Some(name), node_id |-> Some(node_id),
                         ret |-> Some(r.ret),
                         replaced |-> IF r.ret THEN Dropped(ports, r.ports) ELSE <<>>,
                         resolver |-> Some(name)]
    ELSE /\ ports' = ports
         /\ pc' = pc
         /\ emitted' = <<>>
         /\ last' = [kind |-> "port", id |-> 0,
                     name |-> None, node_id |-> None,
                     ret |-> None, replaced |-> <<>>, resolver |-> None]

\* deal_with_port that calls create_links on the ports as they were before
\* the admission
deal_with_port_resolves_first(port) ==
    IF IsSome(port_owner(port))
    THEN \E name \in {Unwrap(Unwrap(port.props).port_name)} :
         \E node_id \in {Unwrap(port_owner(port))} :
         \E r \in {try_add_port(nodes, ports, port_def, port.id, name, node_id)} :
             /\ ports' = r.ports
             /\ pc' = pc
             /\ IF r.ret
                THEN \E fails \in SUBSET (1..Len(resolved_links(
                                             ports, link_def, name))) :
                        emitted' = create_links(ports, link_def, name, fails)
                ELSE emitted' = <<>>
             /\ last' = [kind |-> "port",
                         id |-> IF r.ret THEN port.id ELSE 0,
                         name |-> Some(name), node_id |-> Some(node_id),
                         ret |-> Some(r.ret),
                         replaced |-> IF r.ret THEN Dropped(ports, r.ports) ELSE <<>>,
                         resolver |-> IF r.ret THEN Some(name) ELSE None]
    ELSE /\ ports' = ports
         /\ pc' = pc
         /\ emitted' = <<>>
         /\ last' = [kind |-> "port", id |-> 0,
                     name |-> None, node_id |-> None,
                     ret |-> None, replaced |-> <<>>, resolver |-> None]

\* deal_with_port that calls create_links only for a port that replaced none
deal_with_port_new_only(port) ==
    IF IsSome(port_owner(port))
    THEN \E name \in {Unwrap(Unwrap(port.props).port_name)} :
         \E node_id \in {Unwrap(port_owner(port))} :
         \E r \in {try_add_port(nodes, ports, port_def, port.id, name, node_id)} :
         \E fresh \in {r.ret /\ Len(r.ports) > Len(ports)} :
             /\ ports' = r.ports
             /\ pc' = pc
             /\ IF fresh
                THEN \E fails \in SUBSET (1..Len(resolved_links(
                                             r.ports, link_def, name))) :
                        emitted' = create_links(r.ports, link_def, name, fails)
                ELSE emitted' = <<>>
             /\ last' = [kind |-> "port",
                         id |-> IF r.ret THEN port.id ELSE 0,
                         name |-> Some(name), node_id |-> Some(node_id),
                         ret |-> Some(r.ret),
                         replaced |-> IF r.ret THEN Dropped(ports, r.ports) ELSE <<>>,
                         resolver |-> IF fresh THEN Some(name) ELSE None]
    ELSE /\ ports' = ports
         /\ pc' = pc
         /\ emitted' = <<>>
         /\ last' = [kind |-> "port", id |-> 0,
                     name |-> None, node_id |-> None,
                     ret |-> None, replaced |-> <<>>, resolver |-> None]

\* lines 220-243; the server fails any of the create_object calls of the pass
deal_with_port(port) ==
    IF IsSome(port_owner(port))
    THEN \E name \in {Unwrap(Unwrap(port.props).port_name)} :
         \E node_id \in {Unwrap(port_owner(port))} :
         \E r \in {try_add_port(nodes, ports, port_def, port.id, name, node_id)} :
         \* line 232: state.get_node(node_id).unwrap()
         \E panics \in {r.ret /\ IsNone(get_node(nodes, node_id))} :
             /\ ports' = r.ports
             /\ pc' = IF panics THEN "panicked" ELSE pc
             /\ IF r.ret /\ ~panics
                THEN \E fails \in SUBSET (1..Len(resolved_links(
                                             r.ports, link_def, name))) :
                        emitted' = create_links(r.ports, link_def, name, fails)
                ELSE emitted' = <<>>
             /\ last' = [kind |-> "port",
                         id |-> IF r.ret THEN port.id ELSE 0,
                         name |-> Some(name), node_id |-> Some(node_id),
                         ret |-> Some(r.ret),
                         replaced |-> IF r.ret THEN Dropped(ports, r.ports) ELSE <<>>,
                         resolver |-> IF r.ret /\ ~panics
                                      THEN Some(name) ELSE None]
    ELSE /\ ports' = ports
         /\ pc' = pc
         /\ emitted' = <<>>
         /\ last' = [kind |-> "port", id |-> 0,
                     name |-> None, node_id |-> None,
                     ret |-> None, replaced |-> <<>>, resolver |-> None]

DealWithPort ==
    /\ pc = "run"
    /\ \E port \in PortEvents : deal_with_port(port)
    /\ scenario' = Observe(scenario, last', emitted', nodes)
    /\ sent' = IF ~sent.on \/ emitted' = <<>>
               THEN sent
               ELSE [sent EXCEPT !.latest =
                        Record(@, emitted',
                               resolved_links(ports', link_def,
                                              Unwrap(last'.resolver)), 1)]
    /\ UNCHANGED <<lines, read, node_map, port_map, link_def, node_def, port_def,
                   nodes, invalid>>

Next == ParseLine \/ ReadError \/ ParseDone \/ DealWithNode \/ DealWithPort

Spec == Init /\ [][Next]_vars

SpecShared == InitShared /\ [][Next]_vars

SpecParse == InitParse /\ [][Next]_vars

SpecSent == InitSent /\ [][Next]_vars

(***************************************************************************)
(* Properties.                                                             *)
(***************************************************************************)
\* some live port carries this name
LivePortName(ps, n) == \E k \in 1..Len(ps) : ps[k].name = n

LivePortsNamed(ps, n) == {ps[k] : k \in {j \in 1..Len(ps) : ps[j].name = n}}

\* the link definitions (by position) that name port n on either side
Referencing(n) ==
    {i \in 1..Len(link_def) :
        link_def[i].port_out.name = n \/ link_def[i].port_in.name = n}

\* those of them whose two port names are both held by live ports
FullyLive(ps, n) ==
    {i \in Referencing(n) :
        /\ LivePortName(ps, link_def[i].port_out.name)
        /\ LivePortName(ps, link_def[i].port_in.name)}

\* request e connects live ports that carry the two names of definition i
RequestFor(ps, e, i) ==
    /\ \E po \in LivePortsNamed(ps, link_def[i].port_out.name) :
           e.props.output_port = to_string(po.id)
    /\ \E pi \in LivePortsNamed(ps, link_def[i].port_in.name) :
           e.props.input_port = to_string(pi.id)

PortAdmitted == last.kind = "port" /\ last.ret = Some(TRUE)

PortRejected == last.kind = "port" /\ last.ret = Some(FALSE)

NodeAdmitted == last.kind = "node" /\ last.ret = Some(TRUE)

NodeRejected == last.kind = "node" /\ last.ret = Some(FALSE)

\* C1: when the resolver has run for a just-admitted port name, the requests
\* of that pass are, one for one, the link definitions naming that port on
\* either side whose two port names are both live in the store; a definition
\* with a dead endpoint gets no request.
C1_RequestIffBothEndpointsLive ==
    \A n \in PortNames :
        last.resolver = Some(n) =>
            /\ Len(emitted) = Cardinality(FullyLive(ports, n))
            /\ \A i \in FullyLive(ports, n) :
                   \E k \in 1..Len(emitted) : RequestFor(ports, emitted[k], i)
            /\ \A k \in 1..Len(emitted) :
                   \E i \in FullyLive(ports, n) : RequestFor(ports, emitted[k], i)

\* a pass that emitted a request while another definition naming the admitted
\* port had only one endpoint live
C1_Witness ==
    /\ IsSome(last.resolver)
    /\ Len(emitted) >= 1
    /\ Referencing(Unwrap(last.resolver)) # FullyLive(ports, Unwrap(last.resolver))

\* C2: the resolver runs in exactly the steps that admit a port, scoped to the
\* admitted port's name; every other step (a node event, a rejected or
\* malformed port event) runs no resolver and emits no request.
C2_ResolverOnlyOnPortAdmission ==
    /\ PortAdmitted => last.resolver = last.name
    /\ ~PortAdmitted => last.resolver = None /\ emitted = <<>>

C2_Witness == PortAdmitted /\ last.resolver = last.name /\ emitted # <<>>

\* C3: try_add_port returns true iff exactly one live node carries the owner id
\* (get_node is present) and exactly one port definition has the port's name
\* under that node's name; when it returns false, nodes and ports are as
\* before and nothing is emitted.
C3_PortAdmissionStep ==
    (last'.kind = "port" /\ IsSome(last'.ret)) =>
        LET owner_id == Unwrap(last'.node_id)
            owners == {k \in 1..Len(nodes) : nodes[k].id = owner_id}
            declared(k) == {d \in port_def :
                               /\ d.name = Unwrap(last'.name)
                               /\ d.node.name = nodes[k].name}
        IN  /\ Unwrap(last'.ret) <=>
                   /\ Cardinality(owners) = 1
                   /\ \A k \in owners : Cardinality(declared(k)) = 1
            /\ ~Unwrap(last'.ret) =>
                   nodes' = nodes /\ ports' = ports /\ emitted' = <<>>

\* C3: every step satisfies C3_PortAdmissionStep: try_add_port returns true iff
\* the owner is live and the port is declared once under its name, and a
\* rejection changes nothing and emits nothing.
C3_PortAdmission == [][C3_PortAdmissionStep]_vars

\* a port rejected although its owner is live and its name is declared: it is
\* declared under another node
C3_Witness ==
    /\ PortRejected
    /\ get_node(nodes, Unwrap(last.node_id)) # None
    /\ \E d \in port_def : d.name = Unwrap(last.name)
    /\ ports # <<>>

\* C4: try_add_node returns true iff some node definition has exactly the
\* node's name; when it returns false, nodes and ports are as before.
C4_NodeAdmissionStep ==
    (last'.kind = "node" /\ IsSome(last'.ret)) =>
        /\ Unwrap(last'.ret) <=>
               \E d \in node_def : d.name = Unwrap(last'.name)
        /\ ~Unwrap(last'.ret) => nodes' = nodes /\ ports' = ports

\* C4: every step satisfies C4_NodeAdmissionStep: try_add_node returns true iff
\* a node definition has the name, and a rejection changes nothing.
C4_NodeAdmission == [][C4_NodeAdmissionStep]_vars

C4_Witness == NodeRejected /\ nodes # <<>> /\ ports # <<>>

\* C5: no two live nodes carry the same name.
C5_OneLiveNodePerName ==
    \A i, j \in 1..Len(nodes) : nodes[i].name = nodes[j].name => i = j

\* a node admitted over an entry of its name, beside a node of another name
C5_Witness == NodeAdmitted /\ last.replaced # <<>> /\ Len(nodes) = 2

\* no two entries of ps carry the same (port name, owning node name) pair
UniquePairs(ps) ==
    \A i, j \in 1..Len(ps) :
        (ps[i].name = ps[j].name /\ ps[i].node.name = ps[j].node.name) => i = j

SamePair(a, name, node_name) == a.name = name /\ a.node.name = node_name

\* C6: at most one live port exists per (port name, owning node name) pair;
\* an admitted port is afterwards the one entry of its pair, with the event's
\* id and the owner found by get_node, and the entries of other pairs stay.
C6_PortReplaceStep ==
    /\ UniquePairs(ports')
    /\ (last'.kind = "port" /\ last'.ret = Some(TRUE)) =>
           LET name == Unwrap(last'.name)
               owner == Unwrap(get_node(nodes, Unwrap(last'.node_id)))
               mine == {k \in 1..Len(ports') :
                           SamePair(ports'[k], name, owner.name)}
           IN  /\ Cardinality(mine) = 1
               /\ \A k \in mine :
                      ports'[k] = [id |-> last'.id, name |-> name, node |-> owner]
               /\ SelectSeq(ports', LAMBDA a : ~SamePair(a, name, owner.name))
                      = SelectSeq(ports, LAMBDA a : ~SamePair(a, name, owner.name))

\* C6: every step satisfies C6_PortReplaceStep: one live port per (port name,
\* owning node name) pair, an admission replacing the entry of its pair.
C6_OneLivePortPerPair == [][C6_PortReplaceStep]_vars

\* a port admitted over an entry of its pair that had another id
C6_Witness ==
    /\ PortAdmitted
    /\ Len(last.replaced) = 1
    /\ last.replaced[1] # last.id
    /\ Len(ports) >= 2

\* a node was admitted under a name that a live node of another id held
NodeReplacedStep(k) ==
    /\ last'.kind = "node"
    /\ last'.ret = Some(TRUE)
    /\ nodes[k].name = Unwrap(last'.name)
    /\ nodes[k].id # last'.id

OnlyNewIdUnderName ==
    \A j \in 1..Len(nodes') :
        nodes'[j].name = Unwrap(last'.name) => nodes'[j].id = last'.id

\* every port event that names owner_id is rejected in the new state
PortEventsRejected(owner_id) ==
    \A i \in Ids, pn \in PortNames :
        ~try_add_port(nodes', ports', port_def, i, pn, owner_id).ret

\* C7 as stated: after a node is admitted under a name held by a live node of
\* another id, only the new id is held under that name, get_node(old id) is
\* absent and a port event naming the old id as owner is rejected.
C7_OriginalStep ==
    \A k \in 1..Len(nodes) :
        NodeReplacedStep(k) =>
            /\ OnlyNewIdUnderName
            /\ IsNone(get_node(nodes', nodes[k].id))
            /\ PortEventsRejected(nodes[k].id)

C7_AmendedStep ==
    \A k \in 1..Len(nodes) :
        NodeReplacedStep(k) =>
            LET old == nodes[k].id
                found == get_node(nodes', old)
                elsewhere == \E j \in 1..Len(nodes') :
                                 /\ nodes'[j].id = old
                                 /\ nodes'[j].name # Unwrap(last'.name)
            IN  /\ OnlyNewIdUnderName
                /\ IsSome(found) => Unwrap(found).name # Unwrap(last'.name)
                /\ ~elsewhere =>
                       IsNone(found) /\ PortEventsRejected(old)

C8_LiveObjectsAreDeclared ==
    /\ \A k \in 1..Len(nodes) : \E d \in node_def : d.name = nodes[k].name
    /\ \A k \in 1..Len(ports) :
           \E d \in port_def :
               d.name = ports[k].name /\ d.node.name = ports[k].node.name

\* live objects exist and the last event, a port no definition names on a live
\* node, created nothing
C8_Witness ==
    /\ PortRejected
    /\ IsSome(get_node(nodes, Unwrap(last.node_id)))
    /\ ~\E d \in port_def : d.name = Unwrap(last.name)
    /\ ports # <<>>

\* the id the store holds for the live node of this name
StoreNodeId(name) ==
    (CHOOSE a \in Range(nodes) : a.name = name).id

\* C9 as stated: every emitted request carries the ids of the live ports stored
\* under the definition's port names and, as node ids, the ids the store holds
\* at that moment for those ports' owning nodes.
C9_Original ==
    \A n \in PortNames :
        last.resolver = Some(n) =>
            \A k \in 1..Len(emitted) :
                \E i \in FullyLive(ports, n) :
                    \E po \in LivePortsNamed(ports, link_def[i].port_out.name),
                       pi \in LivePortsNamed(ports, link_def[i].port_in.name) :
                        emitted[k].props =
                            [output_port |-> to_string(po.id),
                             input_port  |-> to_string(pi.id),
                             output_node |-> to_string(StoreNodeId(po.node.name)),
                             input_node  |-> to_string(StoreNodeId(pi.node.name)),
                             linger      |-> <<"1">>]

\* C10: in a resolver pass in which the server failed a request, every fully
\* live definition naming the admitted port still has its request, no request
\* is made twice, and nodes and ports are what the admission alone made them.
C10_FailureStep ==
    (IsSome(last'.resolver) /\ \E k \in 1..Len(emitted') : emitted'[k].is_err) =>
        LET n == Unwrap(last'.resolver)
        IN  /\ Len(emitted') = Cardinality(FullyLive(ports', n))
            /\ \A i \in FullyLive(ports', n) :
                   \E k \in 1..Len(emitted') : RequestFor(ports', emitted'[k], i)
            /\ nodes' = nodes
            /\ ports' = try_add_port(nodes, ports, port_def, last'.id, n,
                                     Unwrap(last'.node_id)).ports

\* C10: every step satisfies C10_FailureStep: a failed request neither stops
\* the pass nor is retried, and changes neither nodes nor ports.
C10_FailureDoesNotBlock == [][C10_FailureStep]_vars

\* a pass whose first request failed and that made a second one
C10_Witness ==
    /\ IsSome(last.resolver)
    /\ Len(emitted) >= 2
    /\ emitted[1].is_err

\* C11: an admission applied a second time with the same arguments changes
\* nothing: after any node event handled with (id, name), try_add_node with
\* the same (id, name) returns the nodes the first call left and the same
\* verdict; after any port event handled with (id, name, owner id),
\* try_add_port with the same arguments returns the ports the first call left
\* and the same verdict.  A rejected call has id 0 in last, so every id is
\* tried for it.
C11_UpsertIdempotent ==
    /\ (last.kind = "node" /\ IsSome(last.ret)) =>
           \A id \in (IF NodeAdmitted THEN {last.id} ELSE Ids) :
               LET again == try_add_node(nodes, node_def,
                                         [id |-> id, name |-> Unwrap(last.name)])
               IN  again.nodes = nodes /\ again.ret = Unwrap(last.ret)
    /\ (last.kind = "port" /\ IsSome(last.ret) /\ pc = "run") =>
           \A id \in (IF PortAdmitted THEN {last.id} ELSE Ids) :
               LET again == try_add_port(nodes, ports, port_def, id,
                                         Unwrap(last.name),
                                         Unwrap(last.node_id))
               IN  again.ports = ports /\ again.ret = Unwrap(last.ret)

\* a port admitted into a store of two nodes and two ports, where the second
\* call has an entry of the same name and node to replace
C11_Witness ==
    /\ PortAdmitted
    /\ Len(nodes) = 2
    /\ Len(ports) = 2
    /\ ports[2].id = last.id
    /\ ports[2].name = Unwrap(last.name)

\* the rule set is the single link [A](p) -> [B](q)
SingleLink ==
    /\ pc = "run"
    /\ Len(link_def) = 1
    /\ link_def[1].port_out.name = PortP
    /\ link_def[1].port_out.node.name = NodeA
    /\ link_def[1].port_in.name = PortQ
    /\ link_def[1].port_in.node.name = NodeB

\* the requests made by the first k globals of the trail, in order
RECURSIVE TrailRequests(_, _)
TrailRequests(trail, k) ==
    IF k = 0 THEN <<>> ELSE TrailRequests(trail, k - 1) \o trail[k].reqs

\* the id the port event of this name on the trail carried
TrailPortId(trail, name) ==
    LET k == CHOOSE j \in 3..Len(trail) : trail[j].ev.name = Some(name)
    IN  trail[k].ev.id

\* the run is complete: no request before the second port, and one request,
\* from p's id to q's id, in the step of the second port
OneRequestAtSecondPort(trail) ==
    /\ TrailRequests(trail, 3) = <<>>
    /\ Len(trail[4].reqs) = 1
    /\ trail[4].ev.ret = Some(TRUE)
    /\ trail[4].reqs[1].props.output_port = to_string(TrailPortId(trail, PortP))
    /\ trail[4].reqs[1].props.input_port = to_string(TrailPortId(trail, PortQ))

\* C12 as stated: with the single link [A](p) -> [B](q), once nodes A and B
\* are admitted and port p on A's id and port q on B's id have each been
\* handled once, in either order, one request p -> q has been made in all,
\* in the step of the second port, and none before.
C12_Original ==
    (SingleLink /\ scenario.on /\ Len(scenario.trail) = 4) =>
        OneRequestAtSecondPort(scenario.trail)

\* C12: the same, for nodes A and B admitted under two different ids; before
\* the second port is handled no request has been made.  When A and B were
\* admitted under one id, the run makes no request at all.
C12_OneRequestAtSecondPort ==
    (SingleLink /\ scenario.on) =>
        IF NodeIds(nodes, NodeA) # NodeIds(nodes, NodeB)
        THEN /\ Len(scenario.trail) <= 3 =>
                    TrailRequests(scenario.trail, Len(scenario.trail)) = <<>>
             /\ Len(scenario.trail) = 4 =>
                    OneRequestAtSecondPort(scenario.trail)
        ELSE TrailRequests(scenario.trail, Len(scenario.trail)) = <<>>

\* the run completed with port q handled before port p
C12_Witness ==
    /\ SingleLink
    /\ scenario.on
    /\ Len(scenario.trail) = 4
    /\ scenario.trail[3].ev.name = Some(PortQ)
    /\ scenario.trail[4].ev.name = Some(PortP)
    /\ Len(emitted) = 1
    /\ NodeIds(nodes, NodeA) # NodeIds(nodes, NodeB)

\* both port names of definition i are held by live ports of ps
BothLive(ps, i) ==
    /\ LivePortName(ps, link_def[i].port_out.name)
    /\ LivePortName(ps, link_def[i].port_in.name)

\* definitions i and j share their output port and differ in their input port
SharedOutput(i, j) ==
    /\ link_def[i].port_out.name = link_def[j].port_out.name
    /\ link_def[i].port_in.name # link_def[j].port_in.name

\* C13: for two definitions i and j with one output port and different input
\* ports: a step that admitted the shared output port made a request for
\* each of the two whose input port is live, and for neither otherwise; and
\* a step that admitted either port of i and left both ports of i live, as
\* does the first step after which both are live, made the request for i,
\* whether or not the input port of j is live.
C13_SharedOutput ==
    IsSome(last.resolver) =>
        \A i, j \in 1..Len(link_def) :
            SharedOutput(i, j) =>
                /\ last.resolver = Some(link_def[i].port_out.name) =>
                       /\ BothLive(ports, i) <=>
                              \E k \in 1..Len(emitted) :
                                  RequestFor(ports, emitted[k], i)
                       /\ Len(emitted) =
                              Cardinality(FullyLive(
                                  ports, link_def[i].port_out.name))
                /\ (i \in Referencing(Unwrap(last.resolver))
                        /\ BothLive(ports, i)) =>
                       \E k \in 1..Len(emitted) :
                           RequestFor(ports, emitted[k], i)

\* the shared output port admitted when only one of the two input ports is
\* live: one request, for the definition whose input port is live
C13_Witness ==
    /\ Len(link_def) = 2
    /\ SharedOutput(1, 2)
    /\ last.resolver = Some(link_def[1].port_out.name)
    /\ ~BothLive(ports, 1)
    /\ BothLive(ports, 2)
    /\ Len(emitted) = 1

\* the lines read so far that RE matches, in file order
MatchingLines == SelectSeq(read, LAMBDA line : is_match(line))

\* the first character of the line that is no whitespace is "#"
IsCommentLine(line) ==
    LET i == SkipSpaces(line, 1) IN i <= Len(line) /\ line[i] = "#"

\* the node and port definitions parse_file holds: its maps while it runs,
\* the AppState's vectors once it has returned
NodeDefinitions == IF pc = "run" THEN node_def ELSE Values(node_map)

PortDefinitions == IF pc = "run" THEN port_def ELSE Values(port_map)

\* C14: at every point of the parse and after it, link_def has one entry for
\* each line read that matches RE, in the order of the lines and carrying the
\* port names of its line, also for a line read twice; the node and port
\* definitions are the names of those lines; so a line that does not match
\* adds nothing and the lines after it are parsed: parse_file returns only
\* when every line is read.
C14_OneLinkPerMatchingLine ==
    /\ Len(link_def) = Len(MatchingLines)
    /\ \A k \in 1..Len(MatchingLines) :
           /\ link_def[k].port_out.name = captures(MatchingLines[k]).port_out
           /\ link_def[k].port_in.name = captures(MatchingLines[k]).port_in
    /\ {d.name : d \in NodeDefinitions} =
           UNION {{captures(MatchingLines[k]).node_out,
                   captures(MatchingLines[k]).node_in} :
                      k \in 1..Len(MatchingLines)}
    /\ {d.name : d \in PortDefinitions} =
           UNION {{captures(MatchingLines[k]).port_out,
                   captures(MatchingLines[k]).port_in} :
                      k \in 1..Len(MatchingLines)}
    /\ pc = "run" => lines = <<>>

\* a file parsed to its end: a line that is no rule and no comment, then one
\* rule twice
C14_Witness ==
    /\ pc = "run"
    /\ Len(read) = 3
    /\ ~is_match(read[1])
    /\ ~IsCommentLine(read[1])
    /\ is_match(read[2])
    /\ read[3] = read[2]
    /\ Len(link_def) = 2
    /\ link_def[1] = link_def[2]

\* C15 as stated: a file of which every line is a comment line (its first
\* character that is no whitespace is "#", whatever follows) or a line that
\* is no comment and does not match RE, gives no node, port or link
\* definition.
C15_Original ==
    (pc = "run" /\ \A k \in 1..Len(read) :
                       IsCommentLine(read[k]) \/ ~is_match(read[k])) =>
        /\ link_def = <<>>
        /\ node_def = {}
        /\ port_def = {}

\* C16 as stated: the link definition of every matching line has as port_out
\* a port definition whose node is the node definition named node_out of
\* that line, and as port_in one whose node is named node_in of that line,
\* whatever lines were read before.
C16_Original ==
    Len(link_def) = Len(MatchingLines) =>
        \A k \in 1..Len(MatchingLines) :
            /\ link_def[k].port_out.node.name = captures(MatchingLines[k]).node_out
            /\ link_def[k].port_in.node.name = captures(MatchingLines[k]).node_in

\* C17 as stated: of the lines read that do not match RE, those whose first
\* character that is no whitespace is "#" are not printed as invalid, and
\* all others are.
C17_Original ==
    \A k \in 1..Len(read) :
        ~is_match(read[k]) =>
            (IsCommentLine(read[k]) <=> read[k] \notin Range(invalid))

\* C18: no two live ports have one port name, and get_port_by_name returns a
\* port, one of that name, exactly for the names some live port has.
C18_LivePortNamesUnique ==
    /\ \A i, j \in 1..Len(ports) : ports[i].name = ports[j].name => i = j
    /\ \A n \in PortNames :
           /\ IsSome(get_port_by_name(ports, n)) <=> LivePortName(ports, n)
           /\ IsSome(get_port_by_name(ports, n)) =>
                  Unwrap(get_port_by_name(ports, n)).name = n

\* a port event rejected on a live node while a port of that name is live on
\* another node: the rule file uses the name under both nodes
C18_Witness ==
    /\ PortRejected
    /\ IsSome(get_node(nodes, Unwrap(last.node_id)))
    /\ IsSome(get_port_by_name(ports, Unwrap(last.name)))
    /\ Unwrap(get_port_by_name(ports, Unwrap(last.name))).node.name
           # Unwrap(get_node(nodes, Unwrap(last.node_id))).name
    /\ Len(ports) = 2

\* C19: for every link definition whose two port names are held by live
\* ports, a request with the ids those two ports have now has been made in
\* this step or an earlier one: the latest request made for that pair of
\* port names carries them.
C19_NoLinkMissed ==
    sent.on =>
        \A i \in 1..Len(link_def) :
            LET names == <<link_def[i].port_out.name, link_def[i].port_in.name>>
            IN  \A po \in LivePortsNamed(ports, names[1]),
                   pi \in LivePortsNamed(ports, names[2]) :
                    /\ names \in DOMAIN sent.latest
                    /\ sent.latest[names] = <<to_string(po.id), to_string(pi.id)>>

\* both ports of a link live after one of them was admitted again under
\* another id, in a step that made no new request for another link
C19_Witness ==
    /\ sent.on
    /\ PortAdmitted
    /\ last.replaced # <<>>
    /\ last.replaced # <<last.id>>
    /\ \E i \in 1..Len(link_def) :
           /\ BothLive(ports, i)
           /\ link_def[i].port_out.name # link_def[i].port_in.name
           /\ Unwrap(last.name) \in {link_def[i].port_out.name,
                                     link_def[i].port_in.name}

\* C20: the unwrap of line 232 never fails: whenever try_add_port has just
\* returned true for an owner id, get_node finds a node for that id; and a
\* port event whose owner id get_node finds no node for ends rejected, with
\* the main loop still running.
C20_OwnerPresentAfterAdmission ==
    /\ pc # "panicked"
    /\ PortAdmitted => IsSome(get_node(nodes, Unwrap(last.node_id)))
    /\ (last.kind = "port" /\ IsSome(last.node_id)
            /\ IsNone(get_node(nodes, Unwrap(last.node_id)))) =>
           PortRejected /\ pc = "run"

\* a port of a declared name rejected because two live nodes carry its owner id
C20_Witness ==
    /\ PortRejected
    /\ IsNone(get_node(nodes, Unwrap(last.node_id)))
    /\ \E k \in 1..Len(nodes) : nodes[k].id = Unwrap(last.node_id)
    /\ \E d \in port_def : d.name = Unwrap(last.name)
    /\ pc = "run"

====
